---- MODULE Spec2Model ----
(***************************************************************************)
(* Model of examples/integracao_python.py: a script that builds one atomic *)
(* event and calls the append, scan and query endpoints of the LogLineOS   *)
(* REST API one after the other, printing each decoded response.           *)
(*                                                                         *)
(* Text is modelled as a sequence of one-character strings so that JSON    *)
(* serialisation (requests' json= argument, i.e. json.dumps) and JSON      *)
(* parsing (resp.json(), i.e. json.loads) are real conversions.  URLs are  *)
(* TLA+ strings built with \o, as the f-strings of the script build them.  *)
(***************************************************************************)
EXTENDS Integers, Sequences, FiniteSets, TLC

VARIABLES pc, atomic, sent, exch, resp, stdout, error

vars == <<pc, atomic, sent, exch, resp, stdout, error>>

(***************************************************************************)
(* Configuration (lines 5-6).                                              *)
(***************************************************************************)
API_URL == "http://localhost:8000"
API_KEY == "changeme"

(***************************************************************************)
(* Bounds of the input domain used for the serialisation round trip.       *)
(***************************************************************************)
MaxArgs == 2

(***************************************************************************)
(* JSON values.  Every value carries all fields so that any two values can *)
(* be compared: t is the Python type (str, int, list, dict).               *)
(***************************************************************************)
JStr(s)  == [t |-> "str",  s |-> s,    n |-> 0, elems |-> <<>>, members |-> <<>>]
JInt(n)  == [t |-> "int",  s |-> <<>>, n |-> n, elems |-> <<>>, members |-> <<>>]
JList(e) == [t |-> "list", s |-> <<>>, n |-> 0, elems |-> e,    members |-> <<>>]
JDict(m) == [t |-> "dict", s |-> <<>>, n |-> 0, elems |-> <<>>, members |-> m]
Member(k, v) == [k |-> k, v |-> v]

IntList(ns) == JList([i \in 1..Len(ns) |-> JInt(ns[i])])

(***************************************************************************)
(* The strings of the event literal (lines 8-18).                          *)
(***************************************************************************)
s_entity_type == <<"e","n","t","i","t","y","_","t","y","p","e">>
s_function    == <<"f","u","n","c","t","i","o","n">>
s_intent      == <<"i","n","t","e","n","t">>
s_run_code    == <<"r","u","n","_","c","o","d","e">>
s_this        == <<"t","h","i","s">>
s_add         == <<"a","d","d">>
s_did         == <<"d","i","d">>
s_actor       == <<"a","c","t","o","r">>
s_python_client == <<"p","y","t","h","o","n","-","c","l","i","e","n","t">>
s_action      == <<"a","c","t","i","o","n">>
s_input       == <<"i","n","p","u","t">>
s_args        == <<"a","r","g","s">>
s_metadata    == <<"m","e","t","a","d","a","t","a">>
s_trace_id    == <<"t","r","a","c","e","_","i","d">>
s_py_demo_123e == <<"p","y","-","d","e","m","o","-","1","2","3","e">>
s_created_at  == <<"c","r","e","a","t","e","d","_","a","t">>
s_timestamp   == <<"2","0","2","5","-","1","1","-","0","7","T",
                   "1","3",":","0","0",":","0","0","Z">>

Event(this, args, trace) ==
    JDict(<< Member(s_entity_type, JStr(s_function)),
             Member(s_intent, JStr(s_run_code)),
             Member(s_this, JStr(this)),
             Member(s_did, JDict(<< Member(s_actor, JStr(s_python_client)),
                                    Member(s_action, JStr(s_run_code)) >>)),
             Member(s_input, JDict(<< Member(s_args, IntList(args)) >>)),
             Member(s_metadata, JDict(<< Member(s_trace_id, JStr(trace)),
                                         Member(s_created_at, JStr(s_timestamp)) >>)) >>)

AtomicLiteral == Event(s_add, <<1, 2>>, s_py_demo_123e)

(***************************************************************************)
(* json.dumps as requests calls it for json=atomic (line 24): default      *)
(* separators ", " and ": ", members in insertion order, strings quoted    *)
(* with the quote and the backslash escaped, integers in decimal.          *)
(***************************************************************************)
DigitChars == <<"0","1","2","3","4","5","6","7","8","9">>

RECURSIVE EncDigits(_)
EncDigits(n) ==
    IF n < 10 THEN <<DigitChars[n + 1]>>
    ELSE EncDigits(n \div 10) \o <<DigitChars[(n % 10) + 1]>>

EncInt(n) == IF n < 0 THEN <<"-">> \o EncDigits(0 - n) ELSE EncDigits(n)

EncChar(c) ==
    IF c = "\"" THEN <<"\\", "\"">>
    ELSE IF c = "\\" THEN <<"\\", "\\">>
    ELSE <<c>>

RECURSIVE EncChars(_)
EncChars(s) == IF s = <<>> THEN <<>> ELSE EncChar(Head(s)) \o EncChars(Tail(s))

EncStrUnescaped(s) == <<"\"">> \o s \o <<"\"">>

EncStr(s) == <<"\"">> \o EncChars(s) \o <<"\"">>

RECURSIVE Dumps(_), DumpElems(_), DumpMembers(_)
DumpElems(es) ==
    IF es = <<>> THEN <<>>
    ELSE IF Len(es) = 1 THEN Dumps(es[1])
    ELSE Dumps(es[1]) \o <<",", " ">> \o DumpElems(Tail(es))

DumpMembers(ms) ==
    IF ms = <<>> THEN <<>>
    ELSE LET one == EncStr(ms[1].k) \o <<":", " ">> \o Dumps(ms[1].v)
         IN  IF Len(ms) = 1 THEN one
             ELSE one \o <<",", " ">> \o DumpMembers(Tail(ms))

Dumps(v) ==
    CASE v.t = "str"  -> EncStr(v.s)
      [] v.t = "int"  -> EncInt(v.n)
      [] v.t = "list" -> <<"[">> \o DumpElems(v.elems) \o <<"]">>
      [] v.t = "dict" -> <<"{">> \o DumpMembers(v.members) \o <<"}">>

(***************************************************************************)
(* json.loads as resp.json() calls it (lines 26, 33, 40): a recursive      *)
(* descent over the text.  A parse result is [ok, val, pos]; pos is the    *)
(* index of the first character after the value.                           *)
(***************************************************************************)
ParseFail == [ok |-> FALSE, val |-> JInt(0), pos |-> 0]
ParseOk(v, p) == [ok |-> TRUE, val |-> v, pos |-> p]

IsDigit(c) == \E d \in 1..10 : DigitChars[d] = c
DigitVal(c) == (CHOOSE d \in 1..10 : DigitChars[d] = c) - 1

RECURSIVE SkipWs(_, _)
SkipWs(cs, i) == IF i <= Len(cs) /\ cs[i] = " " THEN SkipWs(cs, i + 1) ELSE i

RECURSIVE ParseStrChars(_, _, _)
ParseStrChars(cs, i, acc) ==
    IF i > Len(cs) THEN ParseFail
    ELSE IF cs[i] = "\"" THEN ParseOk(JStr(acc), i + 1)
    ELSE IF cs[i] = "\\"
         THEN IF i + 1 <= Len(cs) /\ cs[i + 1] \in {"\"", "\\"}
              THEN ParseStrChars(cs, i + 2, Append(acc, cs[i + 1]))
              ELSE ParseFail
    ELSE ParseStrChars(cs, i + 1, Append(acc, cs[i]))

RECURSIVE ParseDigits(_, _, _)
ParseDigits(cs, i, acc) ==
    IF i <= Len(cs) /\ IsDigit(cs[i])
    THEN ParseDigits(cs, i + 1, acc * 10 + DigitVal(cs[i]))
    ELSE [n |-> acc, pos |-> i]

\* -?(0|[1-9][0-9]*)
ParseNumber(cs, i) ==
    LET neg == cs[i] = "-"
        j   == IF neg THEN i + 1 ELSE i
    IN  IF j > Len(cs) \/ ~IsDigit(cs[j]) THEN ParseFail
        ELSE LET d == IF cs[j] = "0" THEN [n |-> 0, pos |-> j + 1]
                      ELSE ParseDigits(cs, j, 0)
             IN  ParseOk(JInt(IF neg THEN 0 - d.n ELSE d.n), d.pos)

RECURSIVE ParseValue(_, _), ParseElems(_, _, _), ParseMembers(_, _, _)
ParseElems(cs, i, acc) ==
    LET r == ParseValue(cs, i)
        j == SkipWs(cs, r.pos)
    IN  IF ~r.ok \/ j > Len(cs) THEN ParseFail
        ELSE IF cs[j] = "," THEN ParseElems(cs, SkipWs(cs, j + 1), Append(acc, r.val))
        ELSE IF cs[j] = "]" THEN ParseOk(JList(Append(acc, r.val)), j + 1)
        ELSE ParseFail

ParseMembers(cs, i, acc) ==
    IF i > Len(cs) \/ cs[i] # "\"" THEN ParseFail
    ELSE LET key == ParseStrChars(cs, i + 1, <<>>)
             j   == SkipWs(cs, key.pos)
         IN  IF ~key.ok \/ j > Len(cs) \/ cs[j] # ":" THEN ParseFail
             ELSE LET r == ParseValue(cs, SkipWs(cs, j + 1))
                      k == SkipWs(cs, r.pos)
                      m == Append(acc, Member(key.val.s, r.val))
                  IN  IF ~r.ok \/ k > Len(cs) THEN ParseFail
                      ELSE IF cs[k] = "," THEN ParseMembers(cs, SkipWs(cs, k + 1), m)
                      ELSE IF cs[k] = "}" THEN ParseOk(JDict(m), k + 1)
                      ELSE ParseFail

ParseValue(cs, i) ==
    IF i > Len(cs) THEN ParseFail
    ELSE IF cs[i] = "\"" THEN ParseStrChars(cs, i + 1, <<>>)
    ELSE IF cs[i] = "[" THEN
         LET j == SkipWs(cs, i + 1)
         IN  IF j <= Len(cs) /\ cs[j] = "]" THEN ParseOk(JList(<<>>), j + 1)
             ELSE ParseElems(cs, j, <<>>)
    ELSE IF cs[i] = "{" THEN
         LET j == SkipWs(cs, i + 1)
         IN  IF j <= Len(cs) /\ cs[j] = "}" THEN ParseOk(JDict(<<>>), j + 1)
             ELSE ParseMembers(cs, j, <<>>)
    ELSE IF cs[i] = "-" \/ IsDigit(cs[i]) THEN ParseNumber(cs, i)
    ELSE ParseFail

\* json.loads: one value, then nothing but whitespace ("Extra data" otherwise)
Loads(cs) ==
    LET r == ParseValue(cs, SkipWs(cs, 1))
    IN  IF r.ok /\ SkipWs(cs, r.pos) = Len(cs) + 1
        THEN [ok |-> TRUE, val |-> r.val]
        ELSE [ok |-> FALSE, val |-> JInt(0)]


(***************************************************************************)
(* The three requests (lines 21-25, 29-32, 36-39).  A request is what the  *)
(* script hands to requests.post / requests.get; op names the call site.   *)
(***************************************************************************)
Header(name, value) == [name |-> name, value |-> value]

NoBody == <<>>

AppendRequestAsGet(event) ==
    [op      |-> "append",
     method  |-> "GET",
     url     |-> API_URL \o "/append",
     headers |-> {Header("x-api-key", API_KEY)},
     body    |-> NoBody]

AppendRequest(event) ==
    [op      |-> "append",
     method  |-> "POST",
     url     |-> API_URL \o "/append",
     headers |-> {Header("x-api-key", API_KEY),
                  Header("Content-Type", "application/json")},
     body    |-> Dumps(event)]

ScanRequestNoKey ==
    [op      |-> "scan",
     method  |-> "GET",
     url     |-> API_URL \o "/scan",
     headers |-> {},
     body    |-> NoBody]

ScanRequest ==
    [op      |-> "scan",
     method  |-> "GET",
     url     |-> API_URL \o "/scan",
     headers |-> {Header("x-api-key", API_KEY)},
     body    |-> NoBody]

\* the value of metadata.trace_id of an event
TraceIdOf(event) ==
    LET md == (CHOOSE m \in {event.members[i] : i \in 1..Len(event.members)} :
                   m.k = s_metadata).v
    IN  (CHOOSE m \in {md.members[i] : i \in 1..Len(md.members)} :
             m.k = s_trace_id).v.s

RECURSIVE Join(_)
Join(cs) == IF cs = <<>> THEN "" ELSE Head(cs) \o Join(Tail(cs))

QueryRequestFromEvent ==
    [op      |-> "query",
     method  |-> "GET",
     url     |-> API_URL \o "/query?trace_id=" \o Join(TraceIdOf(atomic)),
     headers |-> {Header("x-api-key", API_KEY)},
     body    |-> NoBody]

QueryRequest ==
    [op      |-> "query",
     method  |-> "GET",
     url     |-> API_URL \o "/query?trace_id=py-demo-123e",
     headers |-> {Header("x-api-key", API_KEY)},
     body    |-> NoBody]

(***************************************************************************)
(* What the server and the transport may do.  The server is not part of    *)
(* the repository: it may answer any request with any of these statuses    *)
(* and bodies, or the connection may fail.                                 *)
(***************************************************************************)
AuthStatuses == {401, 403}
Statuses == {200} \cup AuthStatuses

\* {"status": "ok"}
BodyObject == <<"{","\"","s","t","a","t","u","s","\"",":"," ","\"","o","k","\"","}">>
\* [1]
BodyList == <<"[","1","]">>
\* {"status":      (cut off: not valid JSON)
BodyTruncated == <<"{","\"","s","t","a","t","u","s","\"",":">>

Bodies == {BodyObject, BodyList, BodyTruncated}

NoResp == [status |-> 0, body |-> <<>>]

(***************************************************************************)
(* The script, statement by statement.  pc is the statement about to run;  *)
(* X_wait is the script blocked inside requests.post / requests.get.       *)
(***************************************************************************)
WaitPcs  == {"append_wait", "scan_wait", "query_wait"}
PrintPcs == {"append_print", "scan_print", "query_print"}

PrintPcOf(p) ==
    CASE p = "append_wait" -> "append_print"
      [] p = "scan_wait"   -> "scan_print"
      [] p = "query_wait"  -> "query_print"

Pending == {i \in 1..Len(exch) : exch[i] = "pending"}

Send(at, req, next) ==
    /\ pc = at
    /\ sent' = Append(sent, req)
    /\ exch' = Append(exch, "pending")
    /\ pc' = next
    /\ UNCHANGED <<atomic, resp, stdout, error>>

\* lines 21-25
AppendSend == Send("append", AppendRequest(atomic), "append_wait")

ScanSendEarly ==
    /\ pc = "append_wait"
    /\ sent' = Append(sent, ScanRequest)
    /\ exch' = Append(exch, "pending")
    /\ pc' = "scan_wait"
    /\ UNCHANGED <<atomic, resp, stdout, error>>

\* lines 29-32
ScanSend == Send("scan", ScanRequest, "scan_wait")

\* lines 36-39
QuerySend == Send("query", QueryRequest, "query_wait")

SendPcOf(p) ==
    CASE p = "append_wait" -> "append"
      [] p = "scan_wait"   -> "scan"
      [] p = "query_wait"  -> "query"

ConnectionFailsIgnored ==
    /\ pc \in WaitPcs
    /\ \E i \in Pending : exch' = [exch EXCEPT ![i] = "failed"]
    /\ pc' = PrintPcOf(pc)
    /\ UNCHANGED <<atomic, sent, resp, stdout, error>>

ConnectionFailsRetried ==
    /\ pc \in WaitPcs
    /\ \E i \in Pending : exch' = [exch EXCEPT ![i] = "failed"]
    /\ pc' = SendPcOf(pc)
    /\ UNCHANGED <<atomic, sent, resp, stdout, error>>

\* requests.post / requests.get raises: nothing in the script catches it
ConnectionFails ==
    /\ pc \in WaitPcs
    /\ \E i \in Pending : exch' = [exch EXCEPT ![i] = "failed"]
    /\ error' = "ConnectionError"
    /\ pc' = "crashed"
    /\ UNCHANGED <<atomic, sent, resp, stdout>>

\* requests.post / requests.get returns a response, assigned to resp
ServerResponds ==
    /\ pc \in WaitPcs
    /\ \E i \in Pending : exch' = [exch EXCEPT ![i] = "responded"]
    /\ \E st \in Statuses, b \in Bodies : resp' = [status |-> st, body |-> b]
    /\ pc' = PrintPcOf(pc)
    /\ UNCHANGED <<atomic, sent, stdout, error>>

PrintResultLenient(at, label, next) ==
    /\ pc = at
    /\ LET r == Loads(resp.body)
       IN  /\ stdout' = Append(stdout, [label |-> label, value |-> r.val])
           /\ pc' = next
           /\ UNCHANGED error
    /\ UNCHANGED <<atomic, sent, exch, resp>>

PrintResultRaiseForStatus(at, label, next) ==
    /\ pc = at
    /\ LET r == Loads(resp.body)
       IN  IF resp.status >= 400
           THEN /\ error' = "HTTPError"
                /\ pc' = "crashed"
                /\ UNCHANGED stdout
           ELSE IF r.ok
           THEN /\ stdout' = Append(stdout, [label |-> label, value |-> r.val])
                /\ pc' = next
                /\ UNCHANGED error
           ELSE /\ error' = "JSONDecodeError"
                /\ pc' = "crashed"
                /\ UNCHANGED stdout
    /\ UNCHANGED <<atomic, sent, exch, resp>>

PrintResultContinue(at, label, next) ==
    /\ pc = at
    /\ LET r == Loads(resp.body)
       IN  IF r.ok
           THEN /\ stdout' = Append(stdout, [label |-> label, value |-> r.val])
                /\ pc' = next
                /\ UNCHANGED error
           ELSE /\ error' = "JSONDecodeError"
                /\ pc' = next
                /\ UNCHANGED stdout
    /\ UNCHANGED <<atomic, sent, exch, resp>>

\* print(label, resp.json()): resp.json() is evaluated before print is called
PrintResult(at, label, next) ==
    /\ pc = at
    /\ LET r == Loads(resp.body)
       IN  IF r.ok
           THEN /\ stdout' = Append(stdout, [label |-> label, value |-> r.val])
                /\ pc' = next
                /\ UNCHANGED error
           ELSE /\ error' = "JSONDecodeError"
                /\ pc' = "crashed"
                /\ UNCHANGED stdout
    /\ UNCHANGED <<atomic, sent, exch, resp>>

\* line 26
AppendPrint == PrintResult("append_print", "Append result:", "scan")

\* line 33
ScanPrint == PrintResult("scan_print", "Scan result:", "query")

\* line 40
QueryPrint == PrintResult("query_print", "Query result:", "done")

Init ==
    /\ pc = "append"
    /\ atomic = AtomicLiteral
    /\ sent = <<>>
    /\ exch = <<>>
    /\ resp = NoResp
    /\ stdout = <<>>
    /\ error = "none"

Next ==
    \/ AppendSend
    \/ ConnectionFails
    \/ ServerResponds
    \/ AppendPrint
    \/ ScanSend
    \/ ScanPrint
    \/ QuerySend
    \/ QueryPrint

Spec == Init /\ [][Next]_vars

(***************************************************************************)
(* The same script run on any well-formed atomic event: the event literal  *)
(* with other values for "this", "args" and "trace_id".                    *)
(***************************************************************************)
s_quoted  == <<"a","\"","b","\\">>
s_amp_id  == <<"a","&","b"," ","c">>

ThisValues  == {s_add, s_quoted}
TraceIds    == {s_py_demo_123e, s_amp_id}
ArgValues   == {1, 2, 0 - 10}
ArgSeqs     == UNION {[1..n -> ArgValues] : n \in 0..MaxArgs}

Events == {Event(th, a, tr) : th \in ThisValues, a \in ArgSeqs, tr \in TraceIds}

InitAny ==
    /\ pc = "append"
    /\ atomic \in Events
    /\ sent = <<>>
    /\ exch = <<>>
    /\ resp = NoResp
    /\ stdout = <<>>
    /\ error = "none"

SpecAny == InitAny /\ [][Next]_vars

(***************************************************************************)
(* Properties.                                                             *)
(***************************************************************************)
Requests == 1..Len(sent)

\* the latest request was answered and its print statement has run
LastHandled ==
    /\ Len(sent) >= 1
    /\ exch[Len(sent)] = "responded"
    /\ pc \notin PrintPcs

HeaderValues(req, name) == {h.value : h \in {x \in req.headers : x.name = name}}

\* C1: every request the script issues (append, scan, query) carries an
\* x-api-key header, and its value is the configured API key.
C1_ApiKeyOnEveryRequest ==
    \A i \in Requests : HeaderValues(sent[i], "x-api-key") = {API_KEY}

C1_Witness == Len(sent) = 3 /\ {sent[i].op : i \in Requests} = {"append", "scan", "query"}

\* C2: for any well-formed event, the body of the append request decodes to
\* the event, and no step of the script changes the event.
C2_RoundTrip ==
    /\ [](\A i \in Requests : sent[i].op = "append" =>
              Loads(sent[i].body) = [ok |-> TRUE, val |-> atomic])
    /\ [][atomic' = atomic]_vars

C2_Witness ==
    /\ pc = "done"
    /\ sent[1].op = "append"
    /\ \E m \in {atomic.members[i] : i \in 1..Len(atomic.members)} :
           m.k = s_this /\ m.v.s = s_quoted

\* C3: append is a POST to {base_url}/append with Content-Type
\* application/json and the event as body; scan is a GET to {base_url}/scan
\* and query a GET to {base_url}/query?trace_id=py-demo-123e, both without
\* a body; no request is of any other kind.
C3_MethodAndTarget ==
    \A i \in Requests :
        LET r == sent[i]
        IN  \/ /\ r.op = "append"
               /\ r.method = "POST"
               /\ r.url = "http://localhost:8000/append"
               /\ HeaderValues(r, "Content-Type") = {"application/json"}
               /\ Loads(r.body) = [ok |-> TRUE, val |-> atomic]
            \/ /\ r.op = "scan"
               /\ r.method = "GET"
               /\ r.url = "http://localhost:8000/scan"
               /\ r.body = <<>>
            \/ /\ r.op = "query"
               /\ r.method = "GET"
               /\ r.url = "http://localhost:8000/query?trace_id=py-demo-123e"
               /\ r.body = <<>>

C3_Witness == pc = "done" /\ Len(sent) = 3 /\ Len(stdout) = 3

\* percent-encoding of a query parameter value (urllib.parse.quote)
QuoteChar(c) ==
    CASE c = " "  -> "%20"
      [] c = "&"  -> "%26"
      [] c = "\"" -> "%22"
      [] c = "\\" -> "%5C"
      [] OTHER    -> c

RECURSIVE Quote(_)
Quote(cs) == IF cs = <<>> THEN "" ELSE QuoteChar(Head(cs)) \o Quote(Tail(cs))

C5_TransportError ==
    \A i \in Requests : exch[i] = "failed" =>
        /\ error = "ConnectionError"
        /\ pc = "crashed"
        /\ i = Len(sent)
        /\ Len(stdout) = i - 1

C5_Witness == Len(sent) = 2 /\ exch[2] = "failed"

IsObject(body) == Loads(body).ok /\ Loads(body).val.t = "dict"

\* C6 as stated: a body that is not valid JSON, or not an object, gives the
\* decode error and nothing is printed for it.
C6_Original ==
    (LastHandled /\ ~IsObject(resp.body)) =>
        /\ error = "JSONDecodeError"
        /\ Len(stdout) = Len(sent) - 1

\* C6 amended: a body that is not valid JSON gives the decode error and
\* nothing is printed for it; any valid JSON body, object or not, is printed
\* as decoded.
C6_DecodeError ==
    LastHandled =>
        IF Loads(resp.body).ok
        THEN /\ error = "none"
             /\ Len(stdout) = Len(sent)
             /\ stdout[Len(stdout)].value = Loads(resp.body).val
        ELSE /\ error = "JSONDecodeError"
             /\ pc = "crashed"
             /\ Len(stdout) = Len(sent) - 1

C6_Witness ==
    /\ error = "JSONDecodeError"
    /\ resp.body = BodyTruncated
    /\ Len(stdout) = 1
    /\ stdout[1].value = Loads(BodyList).val

\* C7 as stated: a response with an authentication/authorization failure
\* status gives AuthError and is never printed as a result.
C7_Original ==
    (LastHandled /\ resp.status \in AuthStatuses) =>
        /\ error = "AuthError"
        /\ Len(stdout) = Len(sent) - 1

\* C7 amended: the status is not looked at.  A response with an
\* authentication/authorization failure status is printed as the result when
\* its body is valid JSON and gives the decode error when it is not; the only
\* errors are the transport's and the decoder's.
C7_StatusIgnored ==
    /\ error \in {"none", "ConnectionError", "JSONDecodeError"}
    /\ (LastHandled /\ resp.status \in AuthStatuses) =>
           /\ Loads(resp.body).ok =>
                  error = "none" /\ stdout[Len(sent)].value = Loads(resp.body).val
           /\ ~Loads(resp.body).ok => error = "JSONDecodeError"

C7_Witness ==
    /\ pc = "done"
    /\ resp.status = 403
    /\ stdout[3].label = "Query result:"

OpCount(op) == Cardinality({i \in Requests : sent[i].op = op})

\* C8: no retries: at most one append, one scan and one query request are
\* ever sent (three in all), and after an error nothing is pending or sent.
C8_NoRetries ==
    /\ Len(sent) <= 3
    /\ \A op \in {"append", "scan", "query"} : OpCount(op) <= 1
    /\ \A i \in Requests : exch[i] = "failed" => i = Len(sent) /\ Pending = {}

C8_Witness == error = "ConnectionError" /\ Len(sent) = 3

OpOrder == <<"append", "scan", "query">>

\* C9: at most one exchange is in flight, requests go out in the order
\* append, scan, query, and a request goes out only when the exchange before
\* it has completed and its response been decoded.
C9_Sequential ==
    /\ Cardinality(Pending) <= 1
    /\ \A i \in Requests : i <= 3 /\ sent[i].op = OpOrder[i]
    /\ \A i \in Requests : i > 1 =>
           /\ exch[i - 1] = "responded"
           /\ Len(stdout) >= i - 1

C9_Witness == Pending = {2} /\ pc = "scan_wait"

\* C10: once an operation has failed nothing more is sent or printed, and a
\* request is sent only when every earlier operation has printed its result.
C10_FailureEndsRun ==
    /\ [][error # "none" => (sent' = sent /\ stdout' = stdout)]_vars
    /\ [][Len(sent') > Len(sent) =>
             (error = "none" /\ Len(stdout) = Len(sent) /\ Pending = {})]_vars
    /\ [](error # "none" => pc = "crashed")

C10_Witness == error = "JSONDecodeError" /\ Len(sent) = 1

====
